---- MODULE Spec2Model ----
(***************************************************************************)
(* Thermo_PID: a saturating, rate-limited PID controller (pid_tuner.py),   *)
(* the power supply driver (power_supply_device.py) and the real-time      *)
(* tuning loop (main.py).                                                  *)
(*                                                                         *)
(* Python floats are modelled as exact rationals <<n, d>> with d > 0 in    *)
(* lowest terms; elapsed wall-clock time is counted in tenths of a second. *)
(***************************************************************************)
EXTENDS Integers, Sequences, FiniteSets, TLC

VARIABLES
    pid,            \* the PID object: configuration, gains and running state
    pid_command,    \* the value bound to the result of the last pid.Step(...) call
    prev_sat,       \* command_sat_prev as it was before the last Step (history variable)
    steps,          \* number of Step calls made so far
    ch_status,      \* PowerSupply.ch_status, ch_status[i] here is ch_status[i-1] there
    outp,           \* the instrument: outp[c] is the last :OUTP state written to channel c
    appl,           \* the instrument: appl[c] is the last <<volt, curr>> applied to channel c
    ps_open,        \* the VISA resource is open (ps.close() not yet called)
    ps_calls,       \* number of PowerSupply calls made by the client (bounded)
    pc,             \* position of the process
    exit_code,      \* exit status of the process once pc = "terminated"
    clock,          \* time() - start_time, in tenths of a second
    elapsed_time,   \* main.py elapsed_time of the current tick, in tenths of a second
    current_temp,   \* main.py current_temp of the current tick
    error_history,  \* main.py error_history
    coefficients,   \* main.py coefficients, the seed of the next optimizer call
    so_ops,         \* effects the set_output call in progress has still to perform
    so_done,        \* number of effects the set_output call in progress has performed
    opt_evals,      \* number of pid_cost evaluations of the optimizer call in progress
    opt_call,       \* the arguments of the optimize_pid call in progress, or None
    opt_costs,      \* the values pid_cost has returned during that call
    optimizer_invoked, \* the current tick has called optimize_pid
    pending,        \* what is propagating out of the loop: "none", "Exception", "SystemExit"
    cause,          \* why the loop stopped (history variable)
    stopped_at,     \* the position at which the loop stopped (history variable)
    turn_off_calls, \* number of turn_off_all calls made so far (history variable)
    pushed,         \* every error appended to error_history so far (history variable)
    trace,          \* which temperature trace the plant follows
    schedule        \* optimizer calls per 5-second cycle of elapsed_time (history variable)

pidVars == <<pid, pid_command, prev_sat, steps>>
psVars == <<ch_status, outp, appl, ps_open>>
procVars == <<pc, exit_code>>
tickVars == <<clock, elapsed_time, current_temp, coefficients, so_ops, so_done,
              opt_evals, opt_call, opt_costs, optimizer_invoked>>
histVars == <<error_history, pushed, trace, schedule>>
stopVars == <<pending, cause, stopped_at, turn_off_calls>>
loopVars == <<tickVars, histVars, stopVars>>

vars == <<pid, pid_command, prev_sat, steps, ch_status, outp, appl, ps_open,
          ps_calls, pc, exit_code, clock, elapsed_time, current_temp,
          error_history, coefficients, so_ops, so_done, opt_evals, opt_call, opt_costs,
          optimizer_invoked, pending, cause, stopped_at, turn_off_calls,
          pushed, trace, schedule>>

-----------------------------------------------------------------------------
(* Exact rational arithmetic standing for Python float arithmetic.         *)

Abs(x) == IF x < 0 THEN -x ELSE x

RECURSIVE GCD(_, _)
GCD(a, b) == IF b = 0 THEN a ELSE GCD(b, a % b)

Norm(n, d) ==
    LET g == GCD(Abs(n), Abs(d))
        s == IF d < 0 THEN -1 ELSE 1
    IN  <<(s * n) \div g, (s * d) \div g>>

R(n) == <<n, 1>>
Q(n, d) == Norm(n, d)

\* Sums and products cancel common factors before multiplying, which keeps the
\* intermediate integers small.
RAdd(a, b) ==
    LET g == GCD(a[2], b[2])
    IN  Norm(a[1] * (b[2] \div g) + b[1] * (a[2] \div g), (a[2] \div g) * b[2])
RNeg(a) == <<-a[1], a[2]>>
RSub(a, b) == RAdd(a, RNeg(b))
RMul(a, b) ==
    LET x == Norm(a[1], b[2])
        y == Norm(b[1], a[2])
    IN  <<x[1] * y[1], x[2] * y[2]>>
RDiv(a, b) == RMul(a, Norm(b[2], b[1]))
RLt(a, b) == RSub(a, b)[1] < 0
RLe(a, b) == RSub(a, b)[1] <= 0
RAbs(a) == <<Abs(a[1]), a[2]>>

\* Python's None, the result of a call that executes no return statement.
None == <<>>

\* The loop of main.py is not running.
\* No tick has run: cycle 0 is running, it began with an empty history, it has
\* seen no optimizer call and no cycle has been completed.
ScheduleStart == [k |-> 0, calls |-> 0, armed |-> FALSE, closed |-> {}]

LoopIdle ==
    /\ clock = 0
    /\ elapsed_time = 0
    /\ current_temp = None
    /\ error_history = <<>>
    /\ coefficients = None
    /\ so_ops = <<>>
    /\ so_done = 0
    /\ opt_evals = 0
    /\ opt_call = None
    /\ opt_costs = {}
    /\ optimizer_invoked = FALSE
    /\ pending = "none"
    /\ cause = "none"
    /\ stopped_at = "none"
    /\ turn_off_calls = 0
    /\ pushed = <<>>
    /\ trace = 0
    /\ schedule = ScheduleStart

-----------------------------------------------------------------------------
(* pid_tuner.py: class PID                                                 *)

\* PID.__init__: stores the nine arguments unchecked and zeroes the running state.
PIDNew(Kp, Ki, Kd, Kaw, T_C, T, max, min, max_rate) ==
    [Kp |-> Kp, Ki |-> Ki, Kd |-> Kd, Kaw |-> Kaw, T_C |-> T_C, T |-> T,
     max |-> max, min |-> min, max_rate |-> max_rate,
     integral |-> R(0), err_prev |-> R(0), deriv_prev |-> R(0),
     command_sat_prev |-> R(0), command_prev |-> R(0), command_sat |-> R(0)]

\* "Saturate command": clamp to [min, max], testing max first.
Saturate(p, command) ==
    IF RLt(p.max, command) THEN p.max
    ELSE IF RLt(command, p.min) THEN p.min
    ELSE command

\* "Apply rate limiter": keep sat within max_rate*T of command_sat_prev.
RateLimit_NoLower(p, sat) ==
    LET slew == RMul(p.max_rate, p.T)
    IN  IF RLt(RAdd(p.command_sat_prev, slew), sat)
        THEN RAdd(p.command_sat_prev, slew)
        ELSE sat

RateLimit(p, sat) ==
    LET slew == RMul(p.max_rate, p.T)
    IN  IF RLt(RAdd(p.command_sat_prev, slew), sat)
        THEN RAdd(p.command_sat_prev, slew)
        ELSE IF RLt(sat, RSub(p.command_sat_prev, slew))
        THEN RSub(p.command_sat_prev, slew)
        ELSE sat

\* The state of the PID object after Step(measurement, setpoint).
StepState(p, measurement, setpoint) ==
    LET err == RSub(setpoint, measurement)
        integral == RAdd(p.integral,
                         RAdd(RMul(RMul(p.Ki, err), p.T),
                              RMul(RMul(p.Kaw, RSub(p.command_sat_prev, p.command_prev)),
                                   p.T)))
        deriv_filt == RDiv(RAdd(RSub(err, p.err_prev), RMul(p.T_C, p.deriv_prev)),
                           RAdd(p.T, p.T_C))
        command == RAdd(RAdd(RMul(p.Kp, err), integral), RMul(p.Kd, deriv_filt))
        limited == RateLimit(p, Saturate(p, command))
    IN  [p EXCEPT !.integral = integral,
                  !.err_prev = err,
                  !.deriv_prev = deriv_filt,
                  !.command_prev = command,
                  !.command_sat = limited,
                  !.command_sat_prev = limited]

\* The value the call Step(measurement, setpoint) evaluates to: the body of
\* Step ends after storing command_sat_prev and has no return statement.
StepResult(p, measurement, setpoint) == None

-----------------------------------------------------------------------------
(* ps_config.py and power_supply_device.py: class PowerSupply              *)

\* PowerSupplyChannel.CHn: the :OUTP commands of channel c.
ChOff(c) == <<"OUTP", c, "OFF">>
ChOn(c) == <<"OUTP", c, "ON">>
Appl(c, volt, curr) == <<"APPL", c, volt, curr>>

\* ps_config.py: sens_volt = 3.3, sens_curr = .02
sens_volt == Q(33, 10)
sens_curr == Q(2, 100)

\* One effect of a driver method, in program order: a command written to the
\* instrument (self.ps.write), or an assignment to self.ch_status.
Write(cmd) == [op |-> "write", cmd |-> cmd]
Status(i, v) == [op |-> "status", idx |-> i, val |-> v]

\* PowerSupply.__init__: ch_status = [0,0,0]; the outputs are taken to be off.
PSInit ==
    /\ ch_status = <<0, 0, 0>>
    /\ outp = [c \in 1..3 |-> "OFF"]
    /\ appl = [c \in 1..3 |-> None]
    /\ ps_open = TRUE

\* The effects of set_output(ch, volt, curr) when it runs to its end, given the
\* ch_status it starts with.  Each branch tests only entries of ch_status that
\* the effects before it leave alone.
SetOutputOps(status, ch, volt, curr) ==
    IF ch = "ch1" THEN
        (IF status[2] = 1 THEN <<Write(ChOff(2)), Status(2, 0)>> ELSE <<>>)
        \o <<Write(Appl(1, volt, curr))>>
        \o (IF status[1] = 0 THEN <<Write(ChOn(1)), Status(1, 1)>> ELSE <<>>)
    ELSE IF ch = "ch2" THEN
        (IF status[3] = 1 THEN <<Write(ChOff(3)), Status(3, 0)>> ELSE <<>>)
        \o <<Write(Appl(2, volt, curr))>>
        \o (IF status[2] = 0 THEN <<Write(ChOn(2)), Status(2, 1)>> ELSE <<>>)
    ELSE IF ch = "ch3" THEN
        <<Write(Appl(3, sens_volt, sens_curr))>>
    ELSE <<>>

\* turn_off_all: three writes, no assignment to ch_status.
TurnOffAllOps == <<Write(ChOff(1)), Write(ChOff(2)), Write(ChOff(3))>>

\* The driver and instrument state as one record.
PSState == [ch_status |-> ch_status, outp |-> outp, appl |-> appl]

ApplyOp(d, o) ==
    IF o.op = "status" THEN [d EXCEPT !.ch_status[o.idx] = o.val]
    ELSE IF o.cmd[1] = "OUTP" THEN [d EXCEPT !.outp[o.cmd[2]] = o.cmd[3]]
    ELSE [d EXCEPT !.appl[o.cmd[2]] = <<o.cmd[3], o.cmd[4]>>]

RECURSIVE ApplyOps(_, _)
ApplyOps(d, ops) ==
    IF ops = <<>> THEN d ELSE ApplyOps(ApplyOp(d, Head(ops)), Tail(ops))

\* The effects that precede the k-th effect of ops.
Before(ops, k) == SubSeq(ops, 1, k - 1)

WriteIndices(ops) == { k \in 1..Len(ops) : ops[k].op = "write" }

SetPS(d) ==
    /\ ch_status' = d.ch_status
    /\ outp' = d.outp
    /\ appl' = d.appl

-----------------------------------------------------------------------------
(* The driver on its own: a client that calls set_output and turn_off_all  *)
(* in any order, with any write to the instrument liable to raise.         *)

MaxPSCalls == 4

Channels == { "ch1", "ch2", "ch3", "ch4" }
Volts == { R(0), R(5) }
Currs == { R(2) }

InitPS ==
    /\ pid = PIDNew(R(1), R(0), R(0), R(0), R(1), R(1), R(10), R(0), R(1))
    /\ pid_command = None
    /\ prev_sat = R(0)
    /\ steps = 0
    /\ PSInit
    /\ ps_calls = 0
    /\ pc = "ps_client"
    /\ exit_code = None
    /\ LoopIdle

\* set_output(ch, volt, curr) returning normally.
PSSetOutput ==
    /\ pc = "ps_client"
    /\ ps_calls < MaxPSCalls
    /\ \E ch \in Channels, volt \in Volts, curr \in Currs :
           SetPS(ApplyOps(PSState, SetOutputOps(ch_status, ch, volt, curr)))
    /\ ps_calls' = ps_calls + 1
    /\ UNCHANGED <<pidVars, ps_open, procVars, loopVars>>

\* set_output(ch, volt, curr) whose k-th effect, a write, raises:
\* "except Exception" logs and calls exit().
PSSetOutputFails ==
    /\ pc = "ps_client"
    /\ ps_calls < MaxPSCalls
    /\ \E ch \in Channels, volt \in Volts, curr \in Currs :
           LET ops == SetOutputOps(ch_status, ch, volt, curr)
           IN  \E k \in WriteIndices(ops) : SetPS(ApplyOps(PSState, Before(ops, k)))
    /\ ps_calls' = ps_calls + 1
    /\ pc' = "terminated"
    /\ exit_code' = 0
    /\ UNCHANGED <<pidVars, ps_open, loopVars>>

\* turn_off_all() returning normally.
PSTurnOffAll ==
    /\ pc = "ps_client"
    /\ ps_calls < MaxPSCalls
    /\ SetPS(ApplyOps(PSState, TurnOffAllOps))
    /\ ps_calls' = ps_calls + 1
    /\ UNCHANGED <<pidVars, ps_open, procVars, loopVars>>

\* turn_off_all() whose k-th write raises: log and exit().
PSTurnOffAllFails ==
    /\ pc = "ps_client"
    /\ ps_calls < MaxPSCalls
    /\ \E k \in WriteIndices(TurnOffAllOps) :
           SetPS(ApplyOps(PSState, Before(TurnOffAllOps, k)))
    /\ ps_calls' = ps_calls + 1
    /\ pc' = "terminated"
    /\ exit_code' = 0
    /\ UNCHANGED <<pidVars, ps_open, loopVars>>

NextPS == PSSetOutput \/ PSSetOutputFails \/ PSTurnOffAll \/ PSTurnOffAllFails

SpecPS == InitPS /\ [][NextPS]_vars

-----------------------------------------------------------------------------
(* The controller on its own: any configuration of PIDConfigs, any         *)
(* sequence of Step calls and gain assignments.                            *)

MaxSteps == 3

\* <<Kaw, T_C, T, max, min, max_rate>>, each with min <= max, max_rate >= 0,
\* T > 0 and T_C > 0.
PIDConfigs ==
    { <<Q(1, 2), R(1), R(1), R(10), R(0), Q(1, 2)>>,
      <<R(0),    R(1), R(1), R(10), R(2), R(1)>>,
      <<R(1),    R(3), R(1), R(-1), R(-8), R(2)>>,
      <<R(0),    R(1), R(1), R(4), R(-4), R(0)>> }

\* <<Kp, Ki, Kd>>
GainChoices == { <<R(1), R(0), R(0)>>, <<Q(1, 2), R(1), R(1)>>, <<R(4), R(2), R(0)>> }

Measurements == { R(40), R(50), R(58) }
Setpoints == { R(50) }

InitPID ==
    /\ \E c \in PIDConfigs, g \in GainChoices :
           pid = PIDNew(g[1], g[2], g[3], c[1], c[2], c[3], c[4], c[5], c[6])
    /\ pid_command = None
    /\ prev_sat = R(0)
    /\ steps = 0
    /\ PSInit
    /\ ps_calls = 0
    /\ pc = "pid_client"
    /\ exit_code = None
    /\ LoopIdle

\* pid_command = pid.Step(measurement, setpoint)
PIDStep ==
    /\ steps < MaxSteps
    /\ \E m \in Measurements, s \in Setpoints :
           /\ pid' = StepState(pid, m, s)
           /\ pid_command' = StepResult(pid, m, s)
    /\ prev_sat' = pid.command_sat_prev
    /\ steps' = steps + 1
    /\ UNCHANGED <<psVars, ps_calls, procVars, loopVars>>

\* pid.Kp, pid.Ki, pid.Kd = coefficients
PIDSetGains ==
    /\ steps < MaxSteps
    /\ \E g \in GainChoices :
           /\ <<pid.Kp, pid.Ki, pid.Kd>> # g
           /\ pid' = [pid EXCEPT !.Kp = g[1], !.Ki = g[2], !.Kd = g[3]]
    /\ UNCHANGED <<pid_command, prev_sat, steps, psVars, ps_calls, procVars, loopVars>>

NextPID == PIDStep \/ PIDSetGains

SpecPID == InitPID /\ [][NextPID]_vars

-----------------------------------------------------------------------------
(* main.py: configuration                                                  *)

cool_ch == "ch1"
heat_ch == "ch2"

\* target_temp = 50.0
target_temp == 50
\* tuning_interval = 0.5 s, in tenths of a second
tuning_interval == 5
\* "elapsed_time % 5": the 5 s cycle, in tenths of a second
TuningCycle == 50
\* "len(error_history) > 50"
HistoryLimit == 50
\* "len(error_history) > 10"
HistoryNeeded == 10
\* the current limit passed to set_output
OutputCurrent == 2

\* pid = PID(Kp=0.5, Ki=0.1, Kd=0.01, Kaw=0.01, T_C=1, T=0.1, max=10, min=0, max_rate=0.5)
MainPID ==
    PIDNew(Q(1, 2), Q(1, 10), Q(1, 100), Q(1, 100), R(1), Q(1, 10), R(10), R(0), Q(1, 2))

Gains(p) == <<p.Kp, p.Ki, p.Kd>>

-----------------------------------------------------------------------------
(* main.py: error history and optimization trigger                         *)

\* error_history.append(error); if len(error_history) > 50: error_history.pop(0)
PushError_LimitOff(history, error) ==
    LET appended == Append(history, error)
    IN  IF Len(appended) >= HistoryLimit THEN Tail(appended) ELSE appended

PushError(history, error) ==
    LET appended == Append(history, error)
    IN  IF Len(appended) > HistoryLimit THEN Tail(appended) ELSE appended

\* len(error_history) > 10 and elapsed_time % 5 < tuning_interval
Trigger_AtLeast(history, elapsed) ==
    Len(history) >= HistoryNeeded /\ elapsed % TuningCycle < tuning_interval

Trigger(history, elapsed) ==
    Len(history) > HistoryNeeded /\ elapsed % TuningCycle < tuning_interval

\* The count of optimizer calls per cycle [5k, 5k+5) of elapsed_time after a tick
\* at elapsed: before holds len(error_history) > 10 when the tick began, invoked
\* that the tick called optimize_pid.  A tick of a later cycle closes the cycle
\* that was running; closed holds its number of calls if the history held more
\* than 10 errors when it began.
ScheduleAfter(sch, elapsed, before, invoked) ==
    LET k == elapsed \div TuningCycle
        n == IF invoked THEN 1 ELSE 0
    IN  IF k = sch.k
        THEN [sch EXCEPT !.calls = @ + n]
        ELSE [k |-> k, calls |-> n, armed |-> before,
              closed |-> IF sch.armed THEN { sch.calls } ELSE {}]

\* temperature_history = [target_temp - e for e in error_history]
TemperatureHistory(history) ==
    [i \in 1..Len(history) |-> RSub(R(target_temp), history[i])]

\* The sum of (setpoint - temp)^2 over temperatures lo..hi of the history.  The
\* code adds them in order; the exact sum is the same taken by halves, which
\* keeps the evaluation shallow for a history of HistoryLimit entries.
RECURSIVE SumSquaredErrors(_, _, _, _)
SumSquaredErrors(temperature_history, setpoint, lo, hi) ==
    IF lo > hi THEN R(0)
    ELSE IF lo = hi
         THEN LET error == RSub(setpoint, temperature_history[lo])
              IN  RMul(error, error)
         ELSE LET mid == (lo + hi) \div 2
              IN  RAdd(SumSquaredErrors(temperature_history, setpoint, lo, mid),
                       SumSquaredErrors(temperature_history, setpoint, mid + 1, hi))

\* The value pid_cost(coefficients) returns: total_error, in which the
\* coefficients do not occur.
PidCost_UsesGains(c, temperature_history, setpoint) ==
    RAdd(SumSquaredErrors(temperature_history, setpoint, 1, Len(temperature_history)),
         c[1])

PidCost(c, temperature_history, setpoint) ==
    SumSquaredErrors(temperature_history, setpoint, 1, Len(temperature_history))

\* The arguments of optimize_pid(coefficients_initial, temperature_history, setpoint).
OptCall(seed, temperature_history, setpoint) ==
    [seed |-> seed, temperature_history |-> temperature_history, setpoint |-> setpoint]

\* One evaluation pid_cost(c) by minimize: the candidate is assigned to the
\* gains of the global controller and the cost of the history is returned.
EvalPidCost(c) ==
    /\ pid' = [pid EXCEPT !.Kp = c[1], !.Ki = c[2], !.Kd = c[3]]
    /\ opt_costs' = opt_costs \cup
                       { PidCost(c, opt_call.temperature_history, opt_call.setpoint) }
    /\ opt_evals' = opt_evals + 1

-----------------------------------------------------------------------------
(* The error history on its own: errors are pushed tick after tick, the    *)
(* temperature of each tick given by one of a few plant traces.            *)

MaxPushes == 52
Traces == 1..3

\* The temperature the plant shows at the n-th tick of trace k; any 61
\* consecutive ticks of a trace show pairwise different temperatures.
TraceTemp(k, n) == R(20 + ((k * n) % 61))

InitHistory ==
    /\ pid = MainPID
    /\ pid_command = None
    /\ prev_sat = R(0)
    /\ steps = 0
    /\ PSInit
    /\ ps_calls = 0
    /\ pc = "history_client"
    /\ exit_code = None
    /\ clock = 0
    /\ elapsed_time = 0
    /\ current_temp = None
    /\ error_history = <<>>
    /\ coefficients = None
    /\ so_ops = <<>>
    /\ so_done = 0
    /\ opt_evals = 0
    /\ opt_call = None
    /\ opt_costs = {}
    /\ optimizer_invoked = FALSE
    /\ pending = "none"
    /\ cause = "none"
    /\ stopped_at = "none"
    /\ turn_off_calls = 0
    /\ pushed = <<>>
    /\ trace \in Traces
    /\ schedule = ScheduleStart

\* error = target_temp - current_temp, then the append and the pop of a tick.
HistoryPush ==
    /\ pc = "history_client"
    /\ Len(pushed) < MaxPushes
    /\ LET temp == TraceTemp(trace, Len(pushed) + 1)
           error == RSub(R(target_temp), temp)
       IN  /\ current_temp' = temp
           /\ error_history' = PushError(error_history, error)
           /\ pushed' = Append(pushed, error)
    /\ UNCHANGED <<pidVars, psVars, ps_calls, procVars, clock, elapsed_time,
                   coefficients, so_ops, so_done, opt_evals, opt_call, opt_costs, optimizer_invoked,
                   stopVars, trace, schedule>>

NextHistory == HistoryPush

SpecHistory == InitHistory /\ [][NextHistory]_vars

-----------------------------------------------------------------------------
(* Bounds and input sets of the loop.                                      *)

\* Most pid_cost evaluations of one optimizer call.
MaxEvals == 2
\* Most time, in tenths of a second, a tick takes besides its sleep.
MaxDelay == 1

LoopTemps == { R(40), R(50), R(55) }

\* elapsed_time of the tick the loop is taken up at, in tenths of a second.
LoopElapsed == { 0, 4, 5, 49, 52, 100, 105 }

\* Length of the error history before the tick the loop is taken up at.
LoopHistoryLens == { 0, 9, 10, 49, 50 }

\* The errors of n earlier ticks.
HistoryFill(n) == [i \in 1..n |-> R(i % 7)]

\* The channels the set_output calls of earlier ticks selected, oldest first.
EarlierOutputs ==
    { <<>>, <<cool_ch>>, <<heat_ch>>, <<cool_ch, heat_ch>>, <<heat_ch, cool_ch>> }

\* The driver after the set_output calls of earlier ticks.
RECURSIVE PSAfter(_, _)
PSAfter(d, chs) ==
    IF chs = <<>> THEN d
    ELSE PSAfter(ApplyOps(d, SetOutputOps(d.ch_status, Head(chs), Q(1, 20),
                                          R(OutputCurrent))),
                 Tail(chs))

\* The gain triples minimize tries and may return, for seed x0 in the box
\* [0,10]^3: x0 itself, x0 with one gain nudged inside the box (a
\* finite-difference step), and two corners of the box.
Candidates(x0) ==
    { x0,
      <<IF RLe(RAdd(x0[1], Q(1, 100)), R(10))
        THEN RAdd(x0[1], Q(1, 100)) ELSE RSub(x0[1], Q(1, 100)), x0[2], x0[3]>>,
      <<R(0), R(0), R(0)>>,
      <<R(10), R(10), R(10)>> }

\* What minimize(pid_cost, x0, bounds=[(0,10)]*3, method="L-BFGS-B") may return
\* after the evaluations made: with every evaluated cost the same the gradient
\* it estimates is zero and it stops at x0; otherwise any point it tried.
MinimizeResults(x0, costs) ==
    IF Cardinality(costs) <= 1 THEN { x0 } ELSE Candidates(x0)

-----------------------------------------------------------------------------
(* main.py: real_time_pid_tuning and the __main__ block.                   *)
(*                                                                         *)
(* pc is the statement the loop is at: "tick" (top of the while body),     *)
(* "step", "actuate", "set_output" (inside PowerSupply.set_output),        *)
(* "record", "optimize" (inside scipy's minimize), "sleep"; "finally" is   *)
(* the finally clause of the __main__ block, "terminated" the end of the   *)
(* process.  KeyboardInterrupt is raised by the interpreter between any    *)
(* two statements of the try body.                                         *)

LoopPCs == { "tick", "step", "actuate", "set_output", "record", "optimize", "sleep" }

\* The exit status Python gives the process: 1 when an Exception escapes the
\* module, 0 when it ends normally or by exit(), which raises SystemExit(None).
ExitStatus(escaping) == IF escaping = "Exception" THEN 1 ELSE 0

\* exit() raises SystemExit, which neither "except KeyboardInterrupt" nor
\* "except Exception" of the loop or of __main__ catches: control reaches the
\* finally clause of __main__ with SystemExit in flight.
RaiseSystemExit(why) ==
    /\ pending' = "SystemExit"
    /\ cause' = why
    /\ stopped_at' = pc
    /\ pc' = "finally"

\* An Exception in the try body: "except Exception" logs and re-raises, the
\* except clause of __main__ logs and re-raises, then its finally clause runs.
RaiseException(why) ==
    /\ pending' = "Exception"
    /\ cause' = why
    /\ stopped_at' = pc
    /\ pc' = "finally"

\* elapsed_time = time() - start_time; sensors.update(); the read delivers a
\* temperature, which is what the rest of the tick is written for.  (With
\* daq/sensors.py as it stands every read ends in one of the two actions below.)
TickRead ==
    /\ pc = "tick"
    /\ elapsed_time' = clock
    /\ current_temp' \in LoopTemps
    /\ optimizer_invoked' = FALSE
    /\ pc' = "step"
    /\ UNCHANGED <<pidVars, psVars, ps_calls, exit_code, clock, coefficients,
                   so_ops, so_done, opt_evals, opt_call, opt_costs, histVars, stopVars>>

\* The sensor read ending in exit(): Sensors.get_sensor_data logs and calls
\* exit() for a channel it holds no Sensor for.
TickReadExits ==
    /\ pc = "tick"
    /\ elapsed_time' = clock
    /\ RaiseSystemExit("sensor")
    /\ UNCHANGED <<pidVars, psVars, ps_calls, exit_code, clock, current_temp,
                   coefficients, so_ops, so_done, opt_evals, opt_call, opt_costs, optimizer_invoked,
                   histVars, turn_off_calls>>

\* The sensor read raising an Exception: Sensor.update_values uses self.log,
\* which no Sensor has (AttributeError); subscripting the tuple that
\* get_sensor_data returns with "temperature" raises TypeError.
TickReadRaises ==
    /\ pc = "tick"
    /\ elapsed_time' = clock
    /\ RaiseException("sensor")
    /\ UNCHANGED <<pidVars, psVars, ps_calls, exit_code, clock, current_temp,
                   coefficients, so_ops, so_done, opt_evals, opt_call, opt_costs, optimizer_invoked,
                   histVars, turn_off_calls>>

\* pid_command = pid.Step(current_temp, target_temp)
TickStep ==
    /\ pc = "step"
    /\ pid' = StepState(pid, current_temp, R(target_temp))
    /\ pid_command' = StepResult(pid, current_temp, R(target_temp))
    /\ prev_sat' = pid.command_sat_prev
    /\ steps' = steps + 1
    /\ pc' = "actuate"
    /\ UNCHANGED <<psVars, ps_calls, exit_code, loopVars>>

\* power.set_output(heat_ch if output_voltage > 0 else cool_ch, abs(output_voltage), 2):
\* the arguments are evaluated and set_output is entered.
TickActuate ==
    /\ pc = "actuate"
    /\ pid_command # None
    /\ so_ops' = SetOutputOps(ch_status,
                              IF RLt(R(0), pid_command) THEN heat_ch ELSE cool_ch,
                              RAbs(pid_command), R(OutputCurrent))
    /\ so_done' = 0
    /\ pc' = "set_output"
    /\ UNCHANGED <<pidVars, psVars, ps_calls, exit_code, clock, elapsed_time,
                   current_temp, coefficients, opt_evals, opt_call, opt_costs, optimizer_invoked,
                   histVars, stopVars>>

\* "output_voltage > 0" with output_voltage None raises TypeError.
TickActuateTypeError ==
    /\ pc = "actuate"
    /\ pid_command = None
    /\ RaiseException("exception")
    /\ UNCHANGED <<pidVars, psVars, ps_calls, exit_code, tickVars, histVars,
                   turn_off_calls>>

\* set_output performs its next effect.
SetOutputEffect ==
    /\ pc = "set_output"
    /\ so_ops # <<>>
    /\ SetPS(ApplyOp(PSState, Head(so_ops)))
    /\ so_ops' = Tail(so_ops)
    /\ so_done' = so_done + 1
    /\ UNCHANGED <<pidVars, ps_open, ps_calls, procVars, clock, elapsed_time,
                   current_temp, coefficients, opt_evals, opt_call, opt_costs, optimizer_invoked,
                   histVars, stopVars>>

\* The next effect of set_output is a write and it raises: log and exit().
SetOutputWriteFails_HardExit ==
    /\ pc = "set_output"
    /\ so_ops # <<>>
    /\ Head(so_ops).op = "write"
    /\ pending' = "SystemExit"
    /\ cause' = "actuator"
    /\ stopped_at' = pc
    /\ pc' = "terminated"
    /\ exit_code' = 0
    /\ UNCHANGED <<pidVars, psVars, ps_calls, tickVars, histVars, turn_off_calls>>

SetOutputWriteFails ==
    /\ pc = "set_output"
    /\ so_ops # <<>>
    /\ Head(so_ops).op = "write"
    /\ RaiseSystemExit("actuator")
    /\ UNCHANGED <<pidVars, psVars, ps_calls, exit_code, tickVars, histVars,
                   turn_off_calls>>

\* set_output returns.
SetOutputReturn ==
    /\ pc = "set_output"
    /\ so_ops = <<>>
    /\ pc' = "record"
    /\ UNCHANGED <<pidVars, psVars, ps_calls, exit_code, loopVars>>

\* writer.writerow, log.info, the update of error_history and the test of the
\* optimization trigger.
TickRecord ==
    /\ pc = "record"
    /\ LET error == RSub(R(target_temp), current_temp)
           history == PushError(error_history, error)
       IN  /\ error_history' = history
           /\ pushed' = Append(pushed, error)
           /\ schedule' = ScheduleAfter(schedule, elapsed_time,
                                        Len(error_history) > HistoryNeeded,
                                        Trigger(history, elapsed_time))
           /\ IF Trigger(history, elapsed_time)
              THEN /\ pc' = "optimize"
                   /\ optimizer_invoked' = TRUE
                   /\ opt_call' = OptCall(coefficients, TemperatureHistory(history),
                                          R(target_temp))
              ELSE /\ pc' = "sleep"
                   /\ optimizer_invoked' = FALSE
                   /\ opt_call' = None
    /\ opt_evals' = 0
    /\ opt_costs' = {}
    /\ UNCHANGED <<pidVars, psVars, ps_calls, exit_code, clock, elapsed_time,
                   current_temp, coefficients, so_ops, so_done, trace, stopVars>>

\* writer.writerow raises (OSError); nothing of the tick after it runs.
TickRecordRaises ==
    /\ pc = "record"
    /\ RaiseException("exception")
    /\ UNCHANGED <<pidVars, psVars, ps_calls, exit_code, tickVars, histVars,
                   turn_off_calls>>

\* minimize evaluates pid_cost on a candidate: pid_cost assigns the candidate to
\* pid.Kp, pid.Ki, pid.Kd and returns the sum of squared errors of the history.
OptimizeEval ==
    /\ pc = "optimize"
    /\ opt_evals < MaxEvals
    /\ \E c \in Candidates(opt_call.seed) : EvalPidCost(c)
    /\ UNCHANGED <<pid_command, prev_sat, steps, psVars, ps_calls, procVars, clock,
                   elapsed_time, current_temp, coefficients, so_ops, so_done,
                   opt_call, optimizer_invoked, histVars, stopVars>>

\* minimize returns; coefficients = result.x; pid.Kp, pid.Ki, pid.Kd = coefficients
OptimizeReturn ==
    /\ pc = "optimize"
    /\ opt_evals >= 1
    /\ \E x \in MinimizeResults(opt_call.seed, opt_costs) :
           /\ coefficients' = x
           /\ pid' = [pid EXCEPT !.Kp = x[1], !.Ki = x[2], !.Kd = x[3]]
    /\ pc' = "sleep"
    /\ UNCHANGED <<pid_command, prev_sat, steps, psVars, ps_calls, exit_code, clock,
                   elapsed_time, current_temp, so_ops, so_done, opt_evals, opt_call, opt_costs,
                   optimizer_invoked, histVars, stopVars>>

\* minimize raises: optimize_pid and the loop body have no handler for it but
\* the "except Exception" of the loop.
OptimizeRaises ==
    /\ pc = "optimize"
    /\ RaiseException("optimizer")
    /\ UNCHANGED <<pidVars, psVars, ps_calls, exit_code, tickVars, histVars,
                   turn_off_calls>>

\* sleep(tuning_interval); the tick took delay tenths of a second besides.
TickSleep ==
    /\ pc = "sleep"
    /\ \E delay \in 0..MaxDelay : clock' = clock + tuning_interval + delay
    /\ pc' = "tick"
    /\ UNCHANGED <<pidVars, psVars, ps_calls, exit_code, elapsed_time, current_temp,
                   coefficients, so_ops, so_done, opt_evals, opt_call, opt_costs, optimizer_invoked,
                   histVars, stopVars>>

\* KeyboardInterrupt in the try body: "except KeyboardInterrupt" logs and
\* breaks, real_time_pid_tuning returns, the finally clause of __main__ runs.
Interrupt ==
    /\ pc \in LoopPCs
    /\ pending' = "none"
    /\ cause' = "interrupt"
    /\ stopped_at' = pc
    /\ pc' = "finally"
    /\ UNCHANGED <<pidVars, psVars, ps_calls, exit_code, tickVars, histVars,
                   turn_off_calls>>

\* finally: power.end() -> turn_off_all() writes the three off commands,
\* ps.close() closes the resource; the process ends with what was in flight.
MainFinally ==
    /\ pc = "finally"
    /\ turn_off_calls' = turn_off_calls + 1
    /\ SetPS(ApplyOps(PSState, TurnOffAllOps))
    /\ ps_open' = FALSE
    /\ pc' = "terminated"
    /\ exit_code' = ExitStatus(pending)
    /\ UNCHANGED <<pidVars, ps_calls, tickVars, histVars, pending, cause, stopped_at>>

\* finally: power.end() -> turn_off_all() whose k-th write raises: turn_off_all
\* logs and calls exit(); the SystemExit passes the "except Exception" clauses
\* of end() and of __main__ and replaces what was in flight.
MainFinallyWriteFails ==
    /\ pc = "finally"
    /\ turn_off_calls' = turn_off_calls + 1
    /\ \E k \in WriteIndices(TurnOffAllOps) :
           SetPS(ApplyOps(PSState, Before(TurnOffAllOps, k)))
    /\ pending' = "SystemExit"
    /\ pc' = "terminated"
    /\ exit_code' = ExitStatus("SystemExit")
    /\ UNCHANGED <<pidVars, ps_open, ps_calls, tickVars, histVars, cause, stopped_at>>

\* finally: power.end() whose ps.close() raises: end() logs and calls exit().
MainFinallyCloseFails ==
    /\ pc = "finally"
    /\ turn_off_calls' = turn_off_calls + 1
    /\ SetPS(ApplyOps(PSState, TurnOffAllOps))
    /\ pending' = "SystemExit"
    /\ pc' = "terminated"
    /\ exit_code' = ExitStatus("SystemExit")
    /\ UNCHANGED <<pidVars, ps_open, ps_calls, tickVars, histVars, cause, stopped_at>>

\* The state common to the initial states of the loop: nothing has stopped it.
LoopFresh ==
    /\ ps_open = TRUE
    /\ ps_calls = 0
    /\ exit_code = None
    /\ coefficients = Gains(MainPID)
    /\ so_ops = <<>>
    /\ so_done = 0
    /\ opt_evals = 0
    /\ opt_call = None
    /\ opt_costs = {}
    /\ optimizer_invoked = FALSE
    /\ pending = "none"
    /\ cause = "none"
    /\ stopped_at = "none"
    /\ turn_off_calls = 0
    /\ trace = 0
    /\ schedule = ScheduleStart

\* The program as it starts: the module-level objects are constructed and
\* real_time_pid_tuning is at the top of its first tick.
InitLoopStart ==
    /\ pid = MainPID
    /\ pid_command = None
    /\ prev_sat = R(0)
    /\ steps = 0
    /\ ch_status = <<0, 0, 0>>
    /\ outp = [c \in 1..3 |-> "OFF"]
    /\ appl = [c \in 1..3 |-> None]
    /\ pc = "tick"
    /\ clock = 0
    /\ elapsed_time = 0
    /\ current_temp = None
    /\ error_history = <<>>
    /\ pushed = <<>>
    /\ LoopFresh

\* The loop taken up at the set_output statement of a tick whose command is a
\* number, the command the controller stored: the sensor has been read and the
\* controller stepped, earlier ticks have left the driver in the state some
\* set_output calls of the loop produce, and the history holds the errors of
\* the ticks before.  The statements of a tick from set_output on are reached
\* from these states only, since Step as written hands the loop None.
InitLoopAtSetOutput ==
    /\ \E t \in LoopTemps :
           /\ current_temp = t
           /\ pid = StepState(MainPID, t, R(target_temp))
    /\ pid_command = pid.command_sat
    /\ prev_sat = R(0)
    /\ steps = 1
    /\ \E earlier \in EarlierOutputs :
           LET d == PSAfter([ch_status |-> <<0, 0, 0>>,
                             outp |-> [c \in 1..3 |-> "OFF"],
                             appl |-> [c \in 1..3 |-> None]], earlier)
           IN  /\ ch_status = d.ch_status
               /\ outp = d.outp
               /\ appl = d.appl
    /\ pc = "actuate"
    /\ \E e \in LoopElapsed : clock = e /\ elapsed_time = e
    /\ \E n \in LoopHistoryLens :
           /\ error_history = HistoryFill(n)
           /\ pushed = HistoryFill(n)
    /\ LoopFresh

InitLoop == InitLoopStart \/ InitLoopAtSetOutput

NextLoop ==
    \/ TickRead \/ TickReadExits \/ TickReadRaises
    \/ TickStep
    \/ TickActuate \/ TickActuateTypeError
    \/ SetOutputEffect \/ SetOutputWriteFails \/ SetOutputReturn
    \/ TickRecord \/ TickRecordRaises
    \/ OptimizeEval \/ OptimizeReturn \/ OptimizeRaises
    \/ TickSleep
    \/ Interrupt
    \/ MainFinally \/ MainFinallyWriteFails \/ MainFinallyCloseFails

SpecLoop == InitLoop /\ [][NextLoop]_vars

-----------------------------------------------------------------------------
(* optimize_pid on its own: one call, for any seed of OptSeeds, any         *)
(* temperature history of OptHistories and any setpoint of OptSetpoints.   *)

\* Seeds in the box [0,10]^3: the gains of main.py, two corners, a mixed point.
OptSeeds ==
    { Gains(MainPID), <<R(0), R(0), R(0)>>, <<R(10), R(10), R(10)>>,
      <<R(10), R(0), Q(5, 2)>> }

OptHistories ==
    { <<>>, <<R(50)>>, <<R(40), R(55)>>, <<R(48), R(49), Q(101, 2), R(50)>> }

OptSetpoints == { R(50), R(0) }

InBox(x) == \A i \in 1..3 : RLe(R(0), x[i]) /\ RLe(x[i], R(10))

InitOptimizer ==
    /\ pid = MainPID
    /\ pid_command = None
    /\ prev_sat = R(0)
    /\ steps = 0
    /\ PSInit
    /\ ps_calls = 0
    /\ pc = "optimize_call"
    /\ exit_code = None
    /\ clock = 0
    /\ elapsed_time = 0
    /\ current_temp = None
    /\ error_history = <<>>
    /\ coefficients = None
    /\ so_ops = <<>>
    /\ so_done = 0
    /\ opt_evals = 0
    /\ \E x0 \in OptSeeds, h \in OptHistories, sp \in OptSetpoints :
           opt_call = OptCall(x0, h, sp)
    /\ opt_costs = {}
    /\ optimizer_invoked = TRUE
    /\ pending = "none"
    /\ cause = "none"
    /\ stopped_at = "none"
    /\ turn_off_calls = 0
    /\ pushed = <<>>
    /\ trace = 0
    /\ schedule = ScheduleStart

\* minimize evaluates pid_cost on a candidate.
OptCallEval ==
    /\ pc = "optimize_call"
    /\ opt_evals < MaxEvals
    /\ \E c \in Candidates(opt_call.seed) : EvalPidCost(c)
    /\ UNCHANGED <<pid_command, prev_sat, steps, psVars, ps_calls, procVars, clock,
                   elapsed_time, current_temp, coefficients, so_ops, so_done,
                   opt_call, optimizer_invoked, histVars, stopVars>>

\* minimize returns and optimize_pid returns result.x to its caller.
OptCallReturn ==
    /\ pc = "optimize_call"
    /\ opt_evals >= 1
    /\ coefficients' \in MinimizeResults(opt_call.seed, opt_costs)
    /\ pc' = "optimize_done"
    /\ UNCHANGED <<pidVars, psVars, ps_calls, exit_code, clock, elapsed_time,
                   current_temp, so_ops, so_done, opt_evals, opt_call, opt_costs,
                   optimizer_invoked, histVars, stopVars>>

\* minimize raises and the exception leaves optimize_pid.
OptCallRaises ==
    /\ pc = "optimize_call"
    /\ pc' = "optimize_raised"
    /\ UNCHANGED <<pidVars, psVars, ps_calls, exit_code, tickVars, histVars, stopVars>>

NextOptimizer == OptCallEval \/ OptCallReturn \/ OptCallRaises

SpecOptimizer == InitOptimizer /\ [][NextOptimizer]_vars

-----------------------------------------------------------------------------
(* PID(...) called with any configuration, then used: the constructor and  *)
(* Step of pid_tuner.py under configurations main.py does not pass.        *)

\* <<Kaw, T_C, T, max, min, max_rate>>: one configuration with T, T_C > 0 and
\* min <= max, then min > max, T < 0, T_C = 0, T + T_C = 0, T + T_C < 0, T = 0.
ConfigChoices ==
    { <<Q(1, 2), R(1), R(1),  R(10), R(0),  Q(1, 2)>>,
      <<R(0),    R(1), R(1),  R(0),  R(10), R(1)>>,
      <<R(0),    R(3), R(-1), R(10), R(0),  R(1)>>,
      <<R(0),    R(0), R(1),  R(10), R(0),  R(1)>>,
      <<R(0),    R(-1), R(1), R(10), R(0),  R(1)>>,
      <<R(0),    R(-2), R(1), R(10), R(0),  R(1)>>,
      <<R(0),    R(2), R(0),  R(10), R(0),  R(1)>> }

\* T > 0, T_C > 0, hence T + T_C > 0, and min <= max.
ValidConfig(p) ==
    /\ RLt(R(0), p.T)
    /\ RLt(R(0), p.T_C)
    /\ RLt(R(0), RAdd(p.T, p.T_C))
    /\ RLe(p.min, p.max)

InitConfig ==
    /\ pid = None
    /\ pid_command = None
    /\ prev_sat = R(0)
    /\ steps = 0
    /\ PSInit
    /\ ps_calls = 0
    /\ pc = "pid_new"
    /\ exit_code = None
    /\ LoopIdle

\* pid = PID(Kp, Ki, Kd, Kaw, T_C, T, max, min, max_rate)
PIDConstruct ==
    /\ pc = "pid_new"
    /\ \E c \in ConfigChoices, g \in GainChoices :
           pid' = PIDNew(g[1], g[2], g[3], c[1], c[2], c[3], c[4], c[5], c[6])
    /\ pc' = "pid_client"
    /\ UNCHANGED <<pid_command, prev_sat, steps, psVars, ps_calls, exit_code, loopVars>>

\* pid.Step(measurement, setpoint) with T + T_C # 0.
ConfigStep ==
    /\ pc = "pid_client"
    /\ RAdd(pid.T, pid.T_C) # R(0)
    /\ PIDStep

\* pid.Step(measurement, setpoint) with T + T_C = 0: the integral is updated,
\* then the division of the derivative filter raises ZeroDivisionError.
ConfigStepZeroDivision ==
    /\ pc = "pid_client"
    /\ RAdd(pid.T, pid.T_C) = R(0)
    /\ steps < MaxSteps
    /\ \E m \in Measurements, s \in Setpoints :
           LET err == RSub(s, m)
           IN  pid' = [pid EXCEPT !.integral =
                          RAdd(pid.integral,
                               RAdd(RMul(RMul(pid.Ki, err), pid.T),
                                    RMul(RMul(pid.Kaw,
                                              RSub(pid.command_sat_prev, pid.command_prev)),
                                         pid.T)))]
    /\ steps' = steps + 1
    /\ pc' = "step_raised"
    /\ UNCHANGED <<pid_command, prev_sat, psVars, ps_calls, exit_code, loopVars>>

NextConfig == PIDConstruct \/ ConfigStep \/ ConfigStepZeroDivision

SpecConfig == InitConfig /\ [][NextConfig]_vars

-----------------------------------------------------------------------------
(* The schedule of the loop on its own: tick after tick in which every     *)
(* call returns, each tick taking its sleep and up to MaxDelay besides.    *)
(* The controller and the driver are left as they are: elapsed_time, the   *)
(* history and the trigger do not depend on them.                          *)

\* Most ticks of a run; 32 ticks pass the end of the cycle [10 s, 15 s).
MaxTicks == 32

InitSchedule ==
    /\ pid = MainPID
    /\ pid_command = None
    /\ prev_sat = R(0)
    /\ steps = 0
    /\ PSInit
    /\ ps_calls = 0
    /\ pc = "schedule_client"
    /\ exit_code = None
    /\ clock = 0
    /\ elapsed_time = 0
    /\ current_temp = None
    /\ error_history = <<>>
    /\ coefficients = Gains(MainPID)
    /\ so_ops = <<>>
    /\ so_done = 0
    /\ opt_evals = 0
    /\ opt_call = None
    /\ opt_costs = {}
    /\ optimizer_invoked = FALSE
    /\ pending = "none"
    /\ cause = "none"
    /\ stopped_at = "none"
    /\ turn_off_calls = 0
    /\ pushed = <<>>
    /\ trace \in Traces
    /\ schedule = ScheduleStart

\* One pass of the while loop: elapsed_time is read, the error is appended,
\* the trigger is tested and the loop sleeps.
ScheduleTick ==
    /\ pc = "schedule_client"
    /\ Len(pushed) < MaxTicks
    /\ elapsed_time' = clock
    /\ LET temp == TraceTemp(trace, Len(pushed) + 1)
           error == RSub(R(target_temp), temp)
           history == PushError(error_history, error)
       IN  /\ current_temp' = temp
           /\ error_history' = history
           /\ pushed' = Append(pushed, error)
           /\ optimizer_invoked' = Trigger(history, clock)
           /\ schedule' = ScheduleAfter(schedule, clock,
                                        Len(error_history) > HistoryNeeded,
                                        Trigger(history, clock))
    /\ \E delay \in 0..MaxDelay : clock' = clock + tuning_interval + delay
    /\ UNCHANGED <<pidVars, psVars, ps_calls, procVars, coefficients, so_ops, so_done,
                   opt_evals, opt_call, opt_costs, stopVars, trace>>

NextSchedule == ScheduleTick

SpecSchedule == InitSchedule /\ [][NextSchedule]_vars

-----------------------------------------------------------------------------
(* Claims about the controller, checked under SpecPID.                     *)

\* C1: the value a Step call returns to its caller is the saturated,
\* rate-limited command the same call stored as command_sat_prev.
C1_StepReturnsStoredCommand ==
    steps > 0 => pid_command = pid.command_sat_prev

\* C2: after every Step, the first included, the stored saturated command
\* lies in [min, max].
C2_StoredCommandInRange ==
    steps > 0 => /\ RLe(pid.min, pid.command_sat_prev)
                 /\ RLe(pid.command_sat_prev, pid.max)

\* C3: the saturated command a Step stores differs from the one stored before
\* it (0 before the first Step) by at most max_rate*T in absolute value.
C3_RateLimited ==
    steps > 0 =>
        RLe(RAbs(RSub(pid.command_sat_prev, prev_sat)), RMul(pid.max_rate, pid.T))

\* C3 witness: a second or later Step whose saturation result was more than
\* max_rate*T below the previous command, so the limiter replaced it.
C3_Witness ==
    /\ steps >= 2
    /\ RLt(Saturate(pid, pid.command_prev), pid.command_sat_prev)
    /\ RLt(pid.command_sat_prev, prev_sat)
    /\ RLt(R(0), pid.max_rate)

-----------------------------------------------------------------------------
(* Claims about the driver, checked under SpecPS.                          *)

\* C8: the outputs of channel 1 (cooling) and channel 2 (heating) are never
\* enabled at the same time.
C8_NeverBothEnabled ==
    ~(outp[1] = "ON" /\ outp[2] = "ON")

\* C15: after any sequence of set_output and turn_off_all calls that returned,
\* ch_status[i] is 1 exactly when the last on/off command written to channel
\* i+1 (channel c = i+1 of the instrument, counted from 1 here) was ON.
C15_StatusTracksOutput ==
    pc = "ps_client" =>
        \A c \in 1..3 : (ch_status[c] = 1) <=> (outp[c] = "ON")

-----------------------------------------------------------------------------
(* Claims about the error history, checked under SpecHistory.              *)

\* The last n elements of a sequence, all of it when it is shorter.
LastOf(seq, n) ==
    IF Len(seq) <= n THEN seq ELSE SubSeq(seq, Len(seq) - n + 1, Len(seq))

\* C9: the error history holds at most 50 values, and they are the most
\* recent min(n, 50) of the n errors pushed, in the order they were pushed.
C9_HistoryIsLast50 ==
    /\ Len(error_history) <= 50
    /\ error_history = LastOf(pushed, 50)

\* C9 witness: 51 errors have been pushed; the first is gone and the 51st is
\* the newest entry.
C9_Witness ==
    /\ Len(pushed) = 51
    /\ \A i \in 1..Len(error_history) : error_history[i] # pushed[1]
    /\ error_history[Len(error_history)] = pushed[51]

-----------------------------------------------------------------------------
(* Claims about the loop, checked under SpecLoop.                          *)

C5_ExitStatusTellsCause ==
    pc = "terminated" =>
        /\ cause \in { "sensor", "actuator" } => exit_code # 0
        /\ cause = "interrupt" => exit_code = 0

C10_OptimizerCalledIffTriggered ==
    pc \in { "optimize", "sleep" } =>
        (optimizer_invoked <=>
            (Len(error_history) > 10 /\ elapsed_time % 50 < 5))

\* C10 witness: a tick whose push brought the history to 11 errors, late in the
\* tuning window, is inside the optimizer call.
C10_Witness ==
    /\ pc = "optimize"
    /\ optimizer_invoked
    /\ Len(error_history) = 11
    /\ elapsed_time % 50 = 4

-----------------------------------------------------------------------------
(* Claims about the optimizer, checked under SpecOptimizer.                *)

\* C12: within one optimize_pid call every candidate triple gets the same
\* cost, and the triple the call returns lies in [0,10]^3 and is the seed.
C12_FlatCostReturnsSeed ==
    /\ Cardinality(opt_costs) <= 1
    /\ pc = "optimize_done" =>
           /\ InBox(coefficients)
           /\ coefficients = opt_call.seed

\* C12 witness: a call on a history with non-zero errors has returned after
\* evaluating the cost on a candidate other than the seed.
C12_Witness ==
    /\ pc = "optimize_done"
    /\ opt_evals >= 2
    /\ Gains(pid) # opt_call.seed
    /\ Len(opt_call.temperature_history) >= 2
    /\ opt_costs # { R(0) }

-----------------------------------------------------------------------------
(* Claims about construction, checked under SpecConfig.                    *)

\* C13: no controller with an invalid configuration (T + T_C <= 0, T <= 0,
\* T_C <= 0 or min > max) ever reaches a Step call: every controller Step has
\* been called on has a valid configuration.
C13_InvalidConfigNeverSteps ==
    steps > 0 => ValidConfig(pid)

-----------------------------------------------------------------------------
(* Claims about the schedule, checked under SpecSchedule.                  *)

\* C14: every completed 5-second cycle that began with more than 10 errors in
\* the history saw exactly one optimizer call, and the running cycle, if it
\* began so, has seen at most one.
C14_OneCallPerCycle ==
    /\ \A n \in schedule.closed : n = 1
    /\ schedule.armed => schedule.calls <= 1

\* No cycle sees two optimizer calls.
NeverTwoCallsPerCycle ==
    /\ \A n \in schedule.closed : n <= 1
    /\ schedule.calls <= 1

====
